---------------------------- MODULE Spec2Model ----------------------------
(***************************************************************************)
(* Execution-realism middleware of bt-lab: exchange-rule conformance,      *)
(* deterministic slippage, taker fees, the buy/sell/close wrappers and the *)
(* net-PnL analyzer; the exchange-rules cache and its fetch; the polling   *)
(* loops of the two live signal bots.                                      *)
(*                                                                         *)
(* Number representation.  The Python code computes with Decimal           *)
(* (exchange_rules.py) and with binary floats (everything else).  The      *)
(* model computes with exact integers in fixed units:                      *)
(*   price      : multiples of 0.01 currency           (PxOne = 1.00)      *)
(*   quantity   : multiples of the quantity unit of the rule set in use    *)
(*   bps        : whole basis points (the float is floored)                *)
(*   eff. price : price * (10000 + bps), i.e. units of 1/10000 price unit  *)
(*   money      : units of 10^-7 (price unit * quantity unit)              *)
(* float(Decimal) and Decimal(str(float)) are exact on the decimal values  *)
(* that occur (at most 8 decimals), and float rounding (relative 1e-16)    *)
(* is far below the money unit.                                            *)
(***************************************************************************)
EXTENDS Integers, Sequences, FiniteSets, TLC

VARIABLES
    creq, cres,          \* conform_order: request under evaluation, result
    sreq, sres,          \* slip_bps / apply_slippage: request, result
    freq, fres,          \* fee_amount / buyhold_fees: request, result
    tape, t,             \* the data feed: preloaded bars, bars delivered
    ex_rules, fees_cfg,  \* what enable_exec_middleware was given
    max_alloc_pct,       \* (in per cent)
    cash, pos,           \* broker: cash, position size of the feed
    pending,             \* broker: orders submitted in the current bar
    notifs,              \* broker: order notifications not yet delivered
    rows, open,          \* FeesNetAnalyzer: rows, _open
    total_fee_in, total_fee_out,
    nOrders,             \* orders submitted so far (bounds the run)
    leg,                 \* history: buy fills since the position was flat
    last,                \* history: what the last notify_order call did
    intent,              \* history: the last wrapper call of the current bar
    ledger,              \* history: the fees of each row before rounding
    cache,               \* symbols with an entry in config/exchange_info.json
    rcall,               \* history: the last ensure_exchange_rules call
    ran,                 \* symbols whose backtest the last batch has run
    nCalls,              \* batches started so far (bounds the exploration)
    bkind,               \* signal bot: which of the two bots runs
    bpc,                 \* signal bot: in its polling loop, or ended
    bidx,                \* signal bot: next symbol of the current cycle
    bcycles,             \* signal bot: cycles completed
    bstate, bsaved,      \* signal bot: state dict, state file
    bio,                 \* history: I/O of the last symbol handled
    blog                 \* history: messages of the boll bot, last evaluation

cvars == <<creq, cres>>
svars == <<sreq, sres>>
fvars == <<freq, fres>>
feed  == <<tape, t>>
cfgs  == <<ex_rules, fees_cfg, max_alloc_pct>>
brk   == <<cash, pos, pending, notifs>>
anl   == <<rows, open, total_fee_in, total_fee_out>>
hist  == <<nOrders, leg, last, intent, ledger>>
mvars == <<feed, cfgs, brk, anl, hist>>
rvars == <<cache, rcall, ran, nCalls>>
bvars == <<bkind, bpc, bidx, bcycles, bstate, bsaved, bio, blog>>
vars  == <<cvars, svars, fvars, mvars, rvars, bvars>>

-----------------------------------------------------------------------------
(* Arithmetic helpers *)

Min(a, b) == IF a <= b THEN a ELSE b
Max(a, b) == IF a >= b THEN a ELSE b
Abs(a)    == IF a >= 0 THEN a ELSE -a

\* Decimal.to_integral_value(ROUND_DOWN) of a / b, b > 0: truncation toward 0
TruncDiv(a, b) == IF a >= 0 THEN a \div b ELSE -((-a) \div b)

\* round-half-even of a / b, a >= 0, b > 0 (Decimal's default context rounding)
RoundHalfEvenDiv(a, b) ==
    LET q == a \div b
        r == a % b
    IN  IF 2 * r < b THEN q
        ELSE IF 2 * r > b THEN q + 1
        ELSE IF q % 2 = 0 THEN q ELSE q + 1

\* round-half-up of a / b, a >= 0, b > 0 (ROUND_HALF_UP)
RoundHalfUpDiv(a, b) == (2 * a + b) \div (2 * b)

-----------------------------------------------------------------------------
(* exchange_rules.py *)

\* Decimal("1") in price units: the divisor conform_order falls back to
PxOne == 100

\* maxQty / maxQtyMkt of the synthetic rules: 9999999 coins.  In units of
\* 0.0001 coin that is beyond the 32-bit range; the model keeps the largest
\* round value in range, above every quantity it enumerates.
DefaultMaxQty == 2000000000

\* The synthetic rule set ensure_exchange_rules gives a symbol that is not in
\* the cache: quantity unit 0.0001 coin, price unit 0.01.  quantMkt is the
\* quantum 10^exponent of the Decimal stepSizeMkt, which is what
\* Decimal.quantize(step) rounds to.
DefaultRules ==
    [ tickSize    |-> 1,
      minQty      |-> 1,   maxQty    |-> DefaultMaxQty, stepSize    |-> 100,
      minQtyMkt   |-> 1,   maxQtyMkt |-> DefaultMaxQty, stepSizeMkt |-> 100,
      quantMkt    |-> 100,
      minNotional |-> 0 ]

_round_down_to_step(x, step) ==
    IF step <= 0 THEN x ELSE TruncDiv(x, step) * step

_round_price(px, tick, side) ==
    IF tick <= 0 THEN px
    ELSE IF side = "buy" THEN _round_down_to_step(px, tick)
    ELSE RoundHalfUpDiv(px, tick) * tick

\* need_q of conform_order: minNotional / px brought to the step
NeedQty(rules, order_type, px) ==
    LET d == IF px > 0 THEN px ELSE PxOne
    IN  IF order_type = "LIMIT"
        THEN _round_down_to_step(rules.minNotional \div d, rules.stepSize)
        ELSE RoundHalfEvenDiv(rules.minNotional, d * rules.quantMkt) * rules.quantMkt

conform_order(rules, side, order_type, ref_price, qty) ==
    LET tick == rules.tickSize
        step == IF order_type = "LIMIT" THEN rules.stepSize ELSE rules.stepSizeMkt
        minq == IF order_type = "LIMIT" THEN rules.minQty   ELSE rules.minQtyMkt
        maxq == IF order_type = "LIMIT" THEN rules.maxQty   ELSE rules.maxQtyMkt
        px   == _round_price(ref_price, tick, side)
        q0   == _round_down_to_step(qty, step)
        q1   == IF minq > 0 /\ q0 < minq THEN minq ELSE q0
        q2   == IF maxq > 0 /\ q1 > maxq THEN maxq ELSE q1
        need == NeedQty(rules, order_type, px)
    IN  IF rules.minNotional > 0 /\ px * q2 < rules.minNotional
        THEN IF need <= 0
             THEN [ok |-> FALSE, price |-> 0, qty |-> 0, notional |-> 0,
                   reason |-> "minNotional_unreachable"]
             ELSE [ok |-> TRUE, price |-> px, qty |-> need,
                   notional |-> px * need, reason |-> ""]
        ELSE [ok |-> TRUE, price |-> px, qty |-> q2,
              notional |-> px * q2, reason |-> ""]

\* bt_conform_market_order without the test of the cap
bt_conform_market_order_NoCap(rules, side, ref_price, qty, cap_notional) ==
    LET adj == conform_order(rules, side, "MARKET", ref_price, qty)
    IN  IF ~adj.ok
        THEN [ok |-> FALSE, qty |-> 0, notional |-> 0, reason |-> adj.reason]
        ELSE [ok |-> TRUE, qty |-> adj.qty, notional |-> adj.notional,
              reason |-> ""]

bt_conform_market_order(rules, side, ref_price, qty, cap_notional) ==
    LET adj == conform_order(rules, side, "MARKET", ref_price, qty)
    IN  IF ~adj.ok
        THEN [ok |-> FALSE, qty |-> 0, notional |-> 0, reason |-> adj.reason]
        ELSE IF adj.notional > cap_notional /\ cap_notional > 0
        THEN [ok |-> FALSE, qty |-> 0, notional |-> 0,
              reason |-> "excede_cap_nueva_orden"]
        ELSE [ok |-> TRUE, qty |-> adj.qty, notional |-> adj.notional,
              reason |-> ""]

-----------------------------------------------------------------------------
(* slippage.py *)

\* A data feed as backtrader holds it with preload: the whole series (tape)
\* and the number of bars delivered so far (t = len(data)).  line[ago] reads
\* array[t - 1 + ago]; a negative array index wraps, Python-style, to the end
\* of the preloaded series.
Line(data, f, ago) ==
    LET k == data.t + ago
    IN  IF k >= 1 THEN data.tape[k][f] ELSE data.tape[k + Len(data.tape)][f]

default_slippage_cfg ==
    [k_vol |-> 35, k_size |-> 50, k_lat |-> 10, min_bps |-> 1, max_bps |-> 80]

default_latency_cfg == [submit_ms |-> 120, ack_ms |-> 80, fill_ms |-> 200]

\* true range of bar -i, as the loop of _atr14_pct_from_data takes it
TrueRange(data, i) ==
    LET c_prev == IF i + 1 <= data.t THEN Line(data, "close", -i - 1)
                                     ELSE Line(data, "close", -i)
        h == Line(data, "high", -i)
        l == Line(data, "low", -i)
    IN  Max(h - l, Max(Abs(h - c_prev), Abs(l - c_prev)))

RECURSIVE TrSum(_, _)
TrSum(data, i) == IF i = 0 THEN 0 ELSE TrueRange(data, i) + TrSum(data, i - 1)

\* ATR14 as a fraction of the last close, in units of 10^-6, capped at 20 %
_atr14_pct_from_data(data) ==
    LET n  == Min(data.t, 16)
        m  == Min(data.t, 15)
        cl == Line(data, "close", -1)
        s  == TrSum(data, m)
    IN  IF n < 2 THEN 0
        ELSE IF cl <= 0 THEN (IF s > 0 THEN 200000 ELSE 0)
        ELSE Min(Max((s * 1000000) \div (Max(m, 1) * cl), 0), 200000)

\* spread proxy in hundredths of a bps, within [2, 30] bps
_spread_bps_from_bar(data) ==
    LET hi  == Line(data, "high", -1)
        lo  == Line(data, "low", -1)
        cl  == Line(data, "close", -1)
        \* raw_bps * 100 = 1e6 * (hi - lo) / mid, mid = (hi + lo) / 2 or close
        raw == IF hi + lo > 0 THEN (2000000 * (hi - lo)) \div (hi + lo)
               ELSE IF cl > 0 THEN (1000000 * (hi - lo)) \div cl
               ELSE IF hi - lo > 0 THEN 10000000
               ELSE IF hi - lo < 0 THEN -10000000 ELSE 0
    IN  Min(Max((raw * 35) \div 100, 200), 3000)

\* order notional relative to the bar's traded value, in units of 10^-6
_size_vs_vol_4h(notional, data) ==
    LET px    == Line(data, "close", -1)
        vol   == Line(data, "volume", -1)
        denom == px * vol
    IN  IF notional <= 0 THEN 0
        ELSE IF denom <= 0 \/ notional >= denom THEN 1000000
        ELSE (notional * 1000000) \div denom

latency_ms_total(lat_cfg) ==
    Max(0, lat_cfg.submit_ms) + Max(0, lat_cfg.ack_ms) + Max(0, lat_cfg.fill_ms)

\* base + extra of slip_bps before the clamp, in hundredths of a bps
\* (k_vol, k_size, k_lat are in hundredths: 0.35 is 35)
SlipRaw(side, price, qty, data, lat_cfg, cfg) ==
    LET spread == _spread_bps_from_bar(data)
        atr    == _atr14_pct_from_data(data)
        sz     == _size_vs_vol_4h(price * qty, data)
        lat    == latency_ms_total(lat_cfg)
    IN  spread \div 2
        + (cfg.k_vol * atr) \div 100
        + (cfg.k_size * sz) \div 100
        + (cfg.k_lat * lat * atr) \div 100000

\* slip_bps with the upper clamp lost: max(min_bps, bps)
slip_bps_NoUpperClamp(side, price, qty, data, lat_cfg, cfg) ==
    Max(cfg.min_bps * 100, SlipRaw(side, price, qty, data, lat_cfg, cfg)) \div 100

\* max(min_bps, min(bps, max_bps)), returned in whole bps
slip_bps(side, price, qty, data, lat_cfg, cfg) ==
    Max(cfg.min_bps * 100,
        Min(SlipRaw(side, price, qty, data, lat_cfg, cfg), cfg.max_bps * 100))
    \div 100

\* apply_slippage with the sell branch adding the slippage like the buy branch
apply_slippage_SameSign(side, ref_price, qty, data, lat_cfg, cfg) ==
    ref_price * (10000 + slip_bps(side, ref_price, qty, data, lat_cfg, cfg))

\* effective price in units of 1/10000 price unit: ref_price * (1 +- bps/1e4)
apply_slippage(side, ref_price, qty, data, lat_cfg, cfg) ==
    LET s_bps == slip_bps(side, ref_price, qty, data, lat_cfg, cfg)
    IN  IF side = "buy" THEN ref_price * (10000 + s_bps)
                        ELSE ref_price * (10000 - s_bps)

-----------------------------------------------------------------------------
(* conform_order as a function: every request of a bounded set is evaluated *)

MaxConfLots == 3

\* spec.md section 8: tickSize 0.01, stepSize 0.001, minQty 0.001,
\* minNotional 10 (quantity unit 0.0001 coin, notional unit 10^-6)
ScenarioRules ==
    [ tickSize    |-> 1,
      minQty      |-> 10,  maxQty    |-> 90000000, stepSize    |-> 10,
      minQtyMkt   |-> 10,  maxQtyMkt |-> 90000000, stepSizeMkt |-> 10,
      quantMkt    |-> 10,
      minNotional |-> 10000000 ]

\* a narrow lot filter: tick 0.05, step 0.0025, quantity in [0.0025, 0.1]
TightRules ==
    [ tickSize    |-> 5,
      minQty      |-> 25,  maxQty    |-> 1000, stepSize    |-> 25,
      minQtyMkt   |-> 25,  maxQtyMkt |-> 1000, stepSizeMkt |-> 25,
      quantMkt    |-> 1,
      minNotional |-> 10000000 ]

ConformRuleSets == {DefaultRules, ScenarioRules, TightRules}
ConformPrices   == {3, 300, 10000}
ConformQtys     == {0, 50, 500} \cup {1000 * k : k \in 1..MaxConfLots}

ConformRequests ==
    [ rules : ConformRuleSets, side : {"buy", "sell"},
      order_type : {"MARKET", "LIMIT"},
      ref_price : ConformPrices, qty : ConformQtys ]

ConformCall ==
    /\ cres = <<>>
    /\ cres' = << conform_order(creq.rules, creq.side, creq.order_type,
                                creq.ref_price, creq.qty) >>
    /\ UNCHANGED <<creq, svars, fvars, mvars, rvars, bvars>>

\* bt_conform_market_order as a function: caps of 5, 10 and 20 (notional
\* unit 10^-6) around the notionals of the requests, and 0 for "no cap"
ConformCaps == {0, 5000000, 10000000, 20000000}

CapRequests ==
    [ rules : ConformRuleSets, side : {"buy", "sell"}, order_type : {"MARKET"},
      ref_price : ConformPrices, qty : ConformQtys, cap : ConformCaps ]

CapCall ==
    /\ cres = <<>>
    /\ cres' = << bt_conform_market_order(creq.rules, creq.side,
                                          creq.ref_price, creq.qty, creq.cap) >>
    /\ UNCHANGED <<creq, svars, fvars, mvars, rvars, bvars>>

-----------------------------------------------------------------------------
(* slip_bps / apply_slippage as functions *)

MaxTape == 2
MaxSlipQty == 2

BarKinds ==
    { [open |-> 5, high |-> 5, low |-> 5, close |-> 5, volume |-> 1000],
      [open |-> 5, high |-> 6, low |-> 4, close |-> 6, volume |-> 100],
      [open |-> 6, high |-> 8, low |-> 3, close |-> 4, volume |-> 0] }

Tapes(n) == UNION { [1..k -> BarKinds] : k \in 1..n }

SlipCfgs ==
    { default_slippage_cfg,
      [k_vol |-> 35, k_size |-> 50, k_lat |-> 10, min_bps |-> 0, max_bps |-> 0],
      [k_vol |-> 0, k_size |-> 0, k_lat |-> 0, min_bps |-> 5, max_bps |-> 12000],
      [k_vol |-> 300, k_size |-> 900, k_lat |-> 20, min_bps |-> 5, max_bps |-> 12000] }

SlipRequests ==
    { r \in [ side : {"buy", "sell"}, price : {5, 50},
              qty : {10 * k : k \in 0..MaxSlipQty},
              tape : Tapes(MaxTape), t : 1..MaxTape,
              lat_cfg : {default_latency_cfg}, cfg : SlipCfgs ] :
        r.t <= Len(r.tape) }

SlipData(r) == [tape |-> r.tape, t |-> r.t]

SlipCall ==
    /\ sres = <<>>
    /\ sres' = << [ bps |-> slip_bps(sreq.side, sreq.price, sreq.qty,
                                     SlipData(sreq), sreq.lat_cfg, sreq.cfg),
                    px  |-> apply_slippage(sreq.side, sreq.price, sreq.qty,
                                     SlipData(sreq), sreq.lat_cfg, sreq.cfg) ] >>
    /\ UNCHANGED <<cvars, sreq, fvars, mvars, rvars, bvars>>

IdleConform == creq = [qty |-> 0] /\ cres = <<>>
IdleSlip    == sreq = [qty |-> 0] /\ sres = <<>>


-----------------------------------------------------------------------------
(* fees.py and the money arithmetic of exec_middleware.py                  *)
(*                                                                         *)
(* In the wrappers and the analyzer the quantity unit is 100 coins, so     *)
(* price * quantity is in currency.  Effective prices are in units of      *)
(* 10^-6 currency, products of an effective price and a quantity too, and  *)
(* money (cash, costs, fees, PnL) is in units of 10^-7 currency.           *)

\* money units of one unit of effective price * quantity
MoneyPerNotional == 1000

\* money units of one unit of price * quantity (one currency unit)
MoneyPerCurrency == 10000000

\* the tolerance 1e-6 of the cash tests of buy_wrapper
Eps == 10

\* default_fees_cfg(): the four rates are the commission, in per mille
default_fees_cfg(commission) ==
    [maker |-> commission, taker |-> commission,
     buyhold_in |-> commission, buyhold_out |-> commission]

\* cfg.get(key, 0.0)
RateOf(cfg, key) == IF key \in DOMAIN cfg THEN cfg[key] ELSE 0

\* notional * rate, floored to the money unit
fee_amount(notional, fee_type, cfg) ==
    (notional \div 1000) * RateOf(cfg, fee_type)
    + ((notional % 1000) * RateOf(cfg, fee_type)) \div 1000

\* a / b for b # 0, floored
FloorDiv(a, b) == IF b > 0 THEN a \div b ELSE (-a) \div (-b)

\* buyhold_fees(capital, px_in, px_out, cfg): capital / px_in raises
\* ZeroDivisionError for px_in = 0; fee_out = (capital / px_in) * px_out * rate
buyhold_fees(capital, px_in, px_out, cfg) ==
    IF px_in = 0
    THEN [raised |-> TRUE, fee_in |-> 0, fee_out |-> 0, total |-> 0]
    ELSE LET fee_in  == fee_amount(capital, "buyhold_in", cfg)
             fee_out == FloorDiv(capital * px_out * RateOf(cfg, "buyhold_out"),
                                 px_in * 1000)
         IN  [raised |-> FALSE, fee_in |-> fee_in, fee_out |-> fee_out,
              total |-> fee_in + fee_out]

MaxFeePx == 3

\* amounts in money units, whole multiples of 6000 so that every quotient
\* above is exact; prices from -2 to MaxFeePx; a cfg with and without rates
FeeAmounts == {-12000, -6000, 0, 6000, 12000}
FeePrices  == -2..MaxFeePx
FeeCfgs    == {default_fees_cfg(1), default_fees_cfg(2), <<>>}

FeeRequests ==
    {[fn |-> "fee_amount", notional |-> n, fee_type |-> ty, cfg |-> c,
      capital |-> 0, px_in |-> 0, px_out |-> 0] :
        n \in FeeAmounts, ty \in {"maker", "taker"}, c \in FeeCfgs}
      \cup
    {[fn |-> "buyhold_fees", notional |-> 0, fee_type |-> "", cfg |-> c,
      capital |-> k, px_in |-> a, px_out |-> b] :
        k \in FeeAmounts, a \in FeePrices, b \in FeePrices, c \in FeeCfgs}

FeeAmountCall ==
    /\ fres = <<>>
    /\ freq.fn = "fee_amount"
    /\ fres' = [raised |-> FALSE,
                fees |-> <<fee_amount(freq.notional, freq.fee_type, freq.cfg)>>]
    /\ UNCHANGED <<cvars, svars, freq, mvars, rvars, bvars>>

BuyholdCall ==
    /\ fres = <<>>
    /\ freq.fn = "buyhold_fees"
    /\ \E r \in {buyhold_fees(freq.capital, freq.px_in, freq.px_out,
                              freq.cfg)} :
          fres' = [raised |-> r.raised,
                   fees |-> IF r.raised THEN <<>>
                            ELSE <<r.fee_in, r.fee_out, r.total>>]
    /\ UNCHANGED <<cvars, svars, freq, mvars, rvars, bvars>>

IdleFees == freq = [fn |-> "none"] /\ fres = <<>>

\* a * b as a two-digit number in base 10^5 (the product exceeds 32 bits)
WideMul(a, b) ==
    LET lo == a * (b % 100000)
    IN  [hi |-> a * (b \div 100000) + lo \div 100000, lo |-> lo % 100000]

WideLeq(x, y) == x.hi < y.hi \/ (x.hi = y.hi /\ x.lo <= y.lo)

\* qty_adj * (cash / total_cost) for 0 < cash < total_cost, in whole quantity
\* units: exchange_rules rounds it down to a step of at least one unit
ScaleQty(qty_adj, c, total_cost) ==
    CHOOSE n \in 0..qty_adj :
        /\ WideLeq(WideMul(n, total_cost), WideMul(qty_adj, c))
        /\ ~WideLeq(WideMul(n + 1, total_cost), WideMul(qty_adj, c))

\* round(x, 2) of a money amount, in cents; round(x, 8) of an effective
\* price num / den, in units of 10^-8 currency
RoundHalfEven(a, b) ==
    IF a >= 0 THEN RoundHalfEvenDiv(a, b) ELSE -RoundHalfEvenDiv(-a, b)

Round2(m) == RoundHalfEven(m, 100000)
Round8(num, den) == RoundHalfEven(num * 100, den)

-----------------------------------------------------------------------------
(* exec_middleware.py: enable_exec_middleware *)

Sym == "BTCUSDT"

\* rules = (ex_rules or {}).get(sym, {}); the runners pass the rules of
\* ensure_exchange_rules, which have an entry for every symbol they run
RulesOf(rs, sym) == IF sym \in DOMAIN rs THEN rs[sym] ELSE <<>>

\* conform_order subscripts the rule set (rules["tickSize"], ...): a rule
\* set without these keys makes it raise KeyError
ConformRaises(rules) ==
    ~({"tickSize", "stepSizeMkt", "minQtyMkt", "maxQtyMkt", "minNotional"}
        \subseteq DOMAIN rules)

\* return None after print("[EXEC-MW][SKIP] ...")
Skip(reason) ==
    [submit |-> FALSE, reason |-> reason, path |-> "none", qty |-> 0,
     px_eff |-> 0, notional |-> 0, fee |-> 0, lines |-> 1,
     over |-> FALSE, reconf |-> 0]

\* return None without a print (lines 65-70)
Silent(reason) ==
    [submit |-> FALSE, reason |-> reason, path |-> "none", qty |-> 0,
     px_eff |-> 0, notional |-> 0, fee |-> 0, lines |-> 0,
     over |-> FALSE, reconf |-> 0]

\* an exception leaves the wrapper
Raise(exc) ==
    [submit |-> FALSE, reason |-> exc, path |-> "raised", qty |-> 0,
     px_eff |-> 0, notional |-> 0, fee |-> 0, lines |-> 0,
     over |-> FALSE, reconf |-> 0]

\* price, notional, fee and total cost of a market buy of qty
BuyCost(px_ref, qty, data, fcfg) ==
    LET px_eff   == apply_slippage("buy", px_ref, qty, data,
                                   default_latency_cfg, default_slippage_cfg)
        notional == px_eff * qty
        fee_in   == fee_amount(notional * MoneyPerNotional, "taker", fcfg)
    IN  [px_eff |-> px_eff, notional |-> notional, fee |-> fee_in,
         total |-> notional * MoneyPerNotional + fee_in]

Forward(path, qty, c) ==
    [submit |-> TRUE, reason |-> "", path |-> path, qty |-> qty,
     px_eff |-> c.px_eff, notional |-> c.notional, fee |-> c.fee,
     lines |-> 0, over |-> FALSE, reconf |-> 0]

\* a decision taken after the first cost estimate exceeded the cash (line
\* 100), with n further runs of bt_conform_market_order
Rescaled(d, n) == [d EXCEPT !.over = TRUE, !.reconf = n]

\* buy_wrapper with the test after the scale-down (line 130) left out
BuyDecision_NoRecheck(size, data, rs, fcfg, csh) ==
    LET px_ref == Line(data, "close", 0)
        rules  == RulesOf(rs, Sym)
        c1     == bt_conform_market_order(rules, "buy", px_ref, size, 0)
        k1     == BuyCost(px_ref, c1.qty, data, fcfg)
        qs     == ScaleQty(c1.qty, csh, k1.total)
        c2     == bt_conform_market_order(rules, "buy", px_ref, qs, 0)
        k2     == BuyCost(px_ref, c2.qty, data, fcfg)
    IN  IF size <= 0 THEN Silent("size<=0")
        ELSE IF px_ref <= 0 THEN Silent("px_ref<=0")
        ELSE IF ConformRaises(rules) THEN Raise("KeyError")
        ELSE IF ~c1.ok \/ c1.qty <= 0 THEN Skip(c1.reason)
        ELSE IF k1.total > csh + Eps
        THEN IF k1.total <= 0 THEN Rescaled(Skip("total_cost<=0"), 0)
             ELSE IF csh <= 0 THEN Rescaled(Skip("scale<=0"), 0)
             ELSE IF ~c2.ok \/ c2.qty <= 0 THEN Rescaled(Skip(c2.reason), 1)
             ELSE Rescaled(Forward("scaled", c2.qty, k2), 1)
        ELSE Forward("direct", c1.qty, k1)

\* buy_wrapper forwarding the first, unscaled quantity when the re-conformed
\* quantity passes
BuyDecision_Unscaled(size, data, rs, fcfg, csh) ==
    LET px_ref == Line(data, "close", 0)
        rules  == RulesOf(rs, Sym)
        c1     == bt_conform_market_order(rules, "buy", px_ref, size, 0)
        k1     == BuyCost(px_ref, c1.qty, data, fcfg)
        qs     == ScaleQty(c1.qty, csh, k1.total)
        c2     == bt_conform_market_order(rules, "buy", px_ref, qs, 0)
        k2     == BuyCost(px_ref, c2.qty, data, fcfg)
    IN  IF size <= 0 THEN Silent("size<=0")
        ELSE IF px_ref <= 0 THEN Silent("px_ref<=0")
        ELSE IF ConformRaises(rules) THEN Raise("KeyError")
        ELSE IF ~c1.ok \/ c1.qty <= 0 THEN Skip(c1.reason)
        ELSE IF k1.total > csh + Eps
        THEN IF k1.total <= 0 THEN Rescaled(Skip("total_cost<=0"), 0)
             ELSE IF csh <= 0 THEN Rescaled(Skip("scale<=0"), 0)
             ELSE IF ~c2.ok \/ c2.qty <= 0 THEN Rescaled(Skip(c2.reason), 1)
             ELSE IF k2.total > csh + Eps
             THEN Rescaled(Skip("cash_insuficiente_tras_escalar"), 1)
             ELSE Rescaled(Forward("scaled", c1.qty, k1), 1)
        ELSE Forward("direct", c1.qty, k1)

\* buy_wrapper forwarding the scaled quantity as it is, without the second
\* bt_conform_market_order (lines 111-121)
BuyDecision_ScaledRaw(size, data, rs, fcfg, csh) ==
    LET px_ref == Line(data, "close", 0)
        rules  == RulesOf(rs, Sym)
        c1     == bt_conform_market_order(rules, "buy", px_ref, size, 0)
        k1     == BuyCost(px_ref, c1.qty, data, fcfg)
        qs     == ScaleQty(c1.qty, csh, k1.total)
        k2     == BuyCost(px_ref, qs, data, fcfg)
    IN  IF size <= 0 THEN Silent("size<=0")
        ELSE IF px_ref <= 0 THEN Silent("px_ref<=0")
        ELSE IF ConformRaises(rules) THEN Raise("KeyError")
        ELSE IF ~c1.ok \/ c1.qty <= 0 THEN Skip(c1.reason)
        ELSE IF k1.total > csh + Eps
        THEN IF k1.total <= 0 THEN Rescaled(Skip("total_cost<=0"), 0)
             ELSE IF csh <= 0 THEN Rescaled(Skip("scale<=0"), 0)
             ELSE IF qs <= 0 THEN Rescaled(Skip("invalid"), 0)
             ELSE IF k2.total > csh + Eps
             THEN Rescaled(Skip("cash_insuficiente_tras_escalar"), 0)
             ELSE Rescaled(Forward("scaled", qs, k2), 0)
        ELSE Forward("direct", c1.qty, k1)

\* buy_wrapper up to the call of the original buy: what is forwarded, if
\* anything, for a requested size with broker cash csh
BuyDecision(size, data, rs, fcfg, csh) ==
    LET px_ref == Line(data, "close", 0)
        rules  == RulesOf(rs, Sym)
        c1     == bt_conform_market_order(rules, "buy", px_ref, size, 0)
        k1     == BuyCost(px_ref, c1.qty, data, fcfg)
        qs     == ScaleQty(c1.qty, csh, k1.total)
        c2     == bt_conform_market_order(rules, "buy", px_ref, qs, 0)
        k2     == BuyCost(px_ref, c2.qty, data, fcfg)
    IN  IF size <= 0 THEN Silent("size<=0")
        ELSE IF px_ref <= 0 THEN Silent("px_ref<=0")
        ELSE IF ConformRaises(rules) THEN Raise("KeyError")
        ELSE IF ~c1.ok \/ c1.qty <= 0 THEN Skip(c1.reason)
        ELSE IF k1.total > csh + Eps
        THEN IF k1.total <= 0 THEN Rescaled(Skip("total_cost<=0"), 0)
             ELSE IF csh <= 0 THEN Rescaled(Skip("scale<=0"), 0)
             ELSE IF ~c2.ok \/ c2.qty <= 0 THEN Rescaled(Skip(c2.reason), 1)
             ELSE IF k2.total > csh + Eps
             THEN Rescaled(Skip("cash_insuficiente_tras_escalar"), 1)
             ELSE Rescaled(Forward("scaled", c2.qty, k2), 1)
        ELSE Forward("direct", c1.qty, k1)

\* the order the wrappers hand to the original buy / sell, with the info the
\* wrapper attaches (addinfo); cashSeen is the cash read at line 91
BuyOrder(d, csh) ==
    [side |-> "buy", size |-> d.qty, path |-> d.path, cashSeen |-> csh,
     px_eff_in |-> d.px_eff, entry_notional |-> d.notional, fee_in |-> d.fee,
     px_eff_out |-> 0, exit_notional |-> 0,
     info |-> {"_px_eff_in", "_entry_notional", "_fee_in", "_symbol"}]

SellOrder(size, data) ==
    LET px_ref == Line(data, "close", 0)
        px_eff == apply_slippage("sell", px_ref, size, data,
                                 default_latency_cfg, default_slippage_cfg)
    IN  [side |-> "sell", size |-> size, path |-> "sell", cashSeen |-> 0,
         px_eff_in |-> 0, entry_notional |-> 0, fee_in |-> 0,
         px_eff_out |-> px_eff, exit_notional |-> px_eff * size,
         info |-> {"_px_eff_out", "_exit_notional", "_symbol"}]

\* sell_wrapper with the signed position as the default size
CloseSize_Signed(size, p) == IF size <= 0 THEN p ELSE size

\* the size sell_wrapper works with: the one given, or the absolute position
\* when none or a non-positive one is given (lines 171-176)
CloseSize(size, p) == IF size <= 0 THEN Abs(p) ELSE size

\* the steps a wrapper went through before calling the original method
Stages(path) ==
    IF path = "direct" THEN <<"rules", "slippage", "cash">>
    ELSE IF path = "scaled"
    THEN <<"rules", "slippage", "cash", "scale", "rules", "slippage", "cash">>
    ELSE IF path = "sell" THEN <<"slippage">>
    ELSE <<>>

\* what a wrapper call printed: one "[EXEC-MW][SKIP] sym datetime motivo=.."
\* line per print reached
LogLines(d, sym, dt) ==
    [i \in 1..d.lines |-> [sym |-> sym, dt |-> dt, motivo |-> d.reason]]

Outcome(d) ==
    IF d.submit THEN "Submitted"
    ELSE IF d.path = "raised" THEN "Raised"
    ELSE "Rejected"

-----------------------------------------------------------------------------
(* One backtest run: a strategy calling buy / sell / close on one data     *)
(* feed, the broker filling market orders at the next bar's open, and      *)
(* FeesNetAnalyzer receiving the notifications                             *)

MaxBars    == 3
MaxOrders  == 4
MaxPerBar  == 2
MaxBuySize == 10
MaxShort   == 4

\* tickSize 0.01, quantities in steps of 100 coins up to 2000
LooseRules ==
    [ tickSize    |-> 1,
      minQty      |-> 1,  maxQty    |-> 20, stepSize    |-> 1,
      minQtyMkt   |-> 1,  maxQtyMkt |-> 20, stepSizeMkt |-> 1,
      quantMkt    |-> 1,
      minNotional |-> 0 ]

\* steps of 200 coins, at least 400 coins and 25 currency per order
LotRules ==
    [ tickSize    |-> 1,
      minQty      |-> 4,  maxQty    |-> 20, stepSize    |-> 2,
      minQtyMkt   |-> 4,  maxQtyMkt |-> 20, stepSizeMkt |-> 2,
      quantMkt    |-> 1,
      minNotional |-> 25 ]

MwRuleSets == {LooseRules, LotRules}
InitCash   == {12 * MoneyPerCurrency, 60 * MoneyPerCurrency}
BuySizes   == {0, 3, MaxBuySize}

\* the mappings handed to enable_exec_middleware: the rules of the symbol, or
\* a mapping without an entry for it (ex_rules=None, the default of
\* run_backtest)
NoRules  == <<>>
RuleMaps == {[s \in {Sym} |-> r] : r \in MwRuleSets} \cup {NoRules}

\* max_alloc_pct in per cent: 0.85 in run_backtest
MaxAllocPcts == {85}
SellSizes  == {0, 2}

\* the bars of a run: the two kinds with a range, opening at 5 and at 6
RunBars == {b \in BarKinds : b.high > b.low}

Data == [tape |-> tape, t |-> t]

EmptyLeg == [buys |-> <<>>, pure |-> TRUE]
NoCall   == [side |-> "none", status |-> "none", size |-> 0, pos |-> 0,
             open |-> <<>>, rows |-> <<>>, zeroed |-> FALSE, leg |-> EmptyLeg]

\* the position once the orders of the current bar have filled
RECURSIVE Exposure(_, _)
Exposure(p, orders) ==
    IF orders = <<>> THEN p
    ELSE Exposure(IF Head(orders).side = "buy" THEN p + Head(orders).size
                                               ELSE p - Head(orders).size,
                  Tail(orders))

NoIntent == [call |-> "none", size |-> 0, outcome |-> "none", orig |-> 0,
             stages |-> <<>>, lines |-> <<>>, before |-> <<>>,
             over |-> FALSE, reconf |-> 0]

\* broker and analyzer state as a wrapper finds it
Snapshot ==
    [pending |-> pending, cash |-> cash, pos |-> pos, rows |-> rows,
     open |-> open, total_fee_in |-> total_fee_in,
     total_fee_out |-> total_fee_out]

\* an exception raised in next() ends cerebro.run()
Running == intent.outcome # "Raised"

CanOrder ==
    /\ Running
    /\ notifs = <<>> /\ nOrders < MaxOrders /\ Len(pending) < MaxPerBar

\* strategy: self.buy(size=size)
Buy(size) ==
    /\ CanOrder
    /\ \E d \in {BuyDecision(size, Data, ex_rules, fees_cfg, cash)} :
          /\ pending' = IF d.submit THEN Append(pending, BuyOrder(d, cash))
                                    ELSE pending
          /\ nOrders' = IF d.submit THEN nOrders + 1 ELSE nOrders
          /\ intent' = [call |-> "buy", size |-> size, outcome |-> Outcome(d),
                        orig |-> IF d.submit THEN 1 ELSE 0,
                        stages |-> Stages(d.path),
                        lines |-> LogLines(d, Sym, t), before |-> Snapshot,
                        over |-> d.over, reconf |-> d.reconf]
    /\ UNCHANGED <<cvars, svars, fvars, rvars, bvars, feed, cfgs, cash, pos, notifs, anl, leg, last, ledger>>

\* sell_wrapper from the point where the size is known
SellWith(call, size, sz) ==
    LET ok == sz > 0 /\ Line(Data, "close", 0) > 0
    IN  /\ CanOrder
        /\ ok => Exposure(pos, pending) - sz >= -MaxShort
        /\ pending' = IF ok THEN Append(pending, SellOrder(sz, Data))
                            ELSE pending
        /\ nOrders' = IF ok THEN nOrders + 1 ELSE nOrders
        /\ intent' = [call |-> call, size |-> size,
                      outcome |-> IF ok THEN "Submitted" ELSE "Rejected",
                      orig |-> IF ok THEN 1 ELSE 0,
                      stages |-> IF ok THEN Stages("sell") ELSE <<>>,
                      lines |-> <<>>, before |-> Snapshot,
                      over |-> FALSE, reconf |-> 0]
        /\ UNCHANGED <<cvars, svars, fvars, rvars, bvars, feed, cfgs, cash, pos, notifs, anl,
                       leg, last, ledger>>

\* strategy: self.sell(size=size), or self.sell() when size is 0; the runs
\* explored keep a short position within MaxShort
Sell(size) == SellWith("sell", size, CloseSize(size, pos))

\* strategy: self.close(): nothing when flat, else sell_wrapper with the
\* absolute position
Close ==
    IF Abs(pos) <= 0 THEN SellWith("close", 0, 0)
    ELSE SellWith("close", 0, CloseSize(Abs(pos), pos))

\* the buy fills since the position was last flat, after one more fill
LegAfter(lg, p, o, newpos) ==
    IF newpos = 0 THEN EmptyLeg
    ELSE IF o.side = "sell" \/ p < 0 THEN [buys |-> lg.buys, pure |-> FALSE]
    ELSE [buys |-> Append(lg.buys, [q |-> o.size, n |-> o.entry_notional,
                                    f |-> o.fee_in]),
          pure |-> lg.pure]

\* The broker on a new bar: the market orders of the previous bar execute in
\* submission order at the bar's open (commission 0); a buy that the cash
\* does not cover is rejected (Margin), a sell always fills (a short position
\* is allowed).  st is the broker state with the notifications it queues.
RECURSIVE ExecAll(_, _, _)
ExecAll(orders, px, st) ==
    IF orders = <<>> THEN st
    ELSE LET o      == Head(orders)
             value  == px * o.size * MoneyPerCurrency
             newpos == IF o.side = "buy" THEN st.pos + o.size
                                         ELSE st.pos - o.size
             fill   == [order |-> o, status |-> "Completed", size |-> o.size,
                        price |-> px * 10000, leg |-> st.leg,
                        zeroed |-> o.side = "sell" /\ st.pos > 0 /\ newpos = 0]
             reject == [order |-> o, status |-> "Margin", size |-> 0,
                        price |-> 0, leg |-> st.leg, zeroed |-> FALSE]
         IN  IF o.side = "buy" /\ value > st.cash
             THEN ExecAll(Tail(orders), px,
                          [st EXCEPT !.notifs = Append(@, reject)])
             ELSE ExecAll(Tail(orders), px,
                          [cash   |-> IF o.side = "buy" THEN st.cash - value
                                                        ELSE st.cash + value,
                           pos    |-> newpos,
                           notifs |-> Append(st.notifs, fill),
                           leg    |-> LegAfter(st.leg, st.pos, o, newpos)])

\* cerebro advances the feed by one bar and the broker processes its orders
NextBar ==
    /\ Running
    /\ notifs = <<>>
    /\ t < Len(tape)
    /\ \E st \in {ExecAll(pending, tape[t + 1].open,
                            [cash |-> cash, pos |-> pos, notifs |-> <<>>,
                             leg |-> leg])} :
          /\ cash' = st.cash
          /\ pos' = st.pos
          /\ notifs' = st.notifs
          /\ leg' = st.leg
    /\ t' = t + 1
    /\ pending' = <<>>
    /\ intent' = NoIntent
    /\ UNCHANGED <<cvars, svars, fvars, rvars, bvars, tape, cfgs, anl, nOrders, last,
                   ledger>>

-----------------------------------------------------------------------------
(* FeesNetAnalyzer *)

\* start(): rows = [], _open = {}, totals 0.  _open is a function from the
\* symbols that have an accumulator.
NoOpen == <<>>

HasOpen(o, sym) == sym \in DOMAIN o

\* the trade is closed without looking at the residual position
ClosesTrade_AnyPosition(p, o, sym) == HasOpen(o, sym)

\* if pos.size == 0 and sym in self._open
ClosesTrade(p, o, sym) == p = 0 /\ HasOpen(o, sym)

\* _open.setdefault(sym, {...}) followed by the three += of the buy branch;
\* px_vwap = entry_notional / qty is kept as the fraction
AccumulateBuy(o, sym, notional, fee_in, size, dt) ==
    LET b == IF HasOpen(o, sym) THEN o[sym]
             ELSE [entry_notional |-> 0, fee_in |-> 0, qty |-> 0,
                   px_vwap |-> [num |-> 0, den |-> 1], dt |-> dt]
        q == b.qty + size
        n == b.entry_notional + notional
    IN  [s \in {sym} |->
            [entry_notional |-> n, fee_in |-> b.fee_in + fee_in, qty |-> q,
             px_vwap |-> IF q > 0 THEN [num |-> n, den |-> q] ELSE b.px_vwap,
             dt |-> b.dt]]

\* the row appended when a sell closes the trade: prices in 10^-8 currency,
\* fees and PnL in cents
ClosedTrade(b, sym, px, fee_out, dt) ==
    LET px_in     == b.px_vwap
        qty       == b.qty
        pnl_bruto == (((px * px_in.den - px_in.num) * qty) \div px_in.den)
                     * MoneyPerNotional
        pnl_neto  == pnl_bruto - b.fee_in - fee_out
    IN  [symbol |-> sym, dt_in |-> b.dt,
         px_in |-> Round8(px_in.num, px_in.den), qty |-> qty,
         fee_in |-> Round2(b.fee_in), dt_out |-> dt, px_out |-> px * 100,
         fee_out |-> Round2(fee_out),
         pnl_bruto |-> Round2(pnl_bruto), pnl_neto |-> Round2(pnl_neto)]

\* notify_order(order) for the oldest undelivered notification
Notify ==
    /\ notifs # <<>>
    /\ LET n    == Head(notifs)
           o    == n.order
           size == Abs(n.size)
           px_b == IF o.px_eff_in > 0 THEN o.px_eff_in ELSE n.price
           px_s == IF o.px_eff_out > 0 THEN o.px_eff_out ELSE n.price
           fee_out == fee_amount(px_s * size * MoneyPerNotional, "taker",
                                 fees_cfg)
       IN  /\ notifs' = Tail(notifs)
           /\ last' = [side |-> o.side, status |-> n.status, size |-> size,
                       pos |-> pos, open |-> open, rows |-> rows,
                       zeroed |-> n.zeroed, leg |-> n.leg]
           /\ IF n.status # "Completed" \/ size <= 0
              THEN UNCHANGED <<anl, ledger>>
              ELSE IF o.side = "buy"
              THEN /\ total_fee_in' = total_fee_in + o.fee_in
                   /\ open' = AccumulateBuy(open, Sym, px_b * size, o.fee_in,
                                            size, t)
                   /\ UNCHANGED <<rows, total_fee_out, ledger>>
              ELSE /\ total_fee_out' = total_fee_out + fee_out
                   /\ IF ClosesTrade(pos, open, Sym)
                      THEN /\ open' = NoOpen
                           /\ rows' = Append(rows,
                                  ClosedTrade(open[Sym], Sym, px_s, fee_out, t))
                           /\ ledger' = Append(ledger,
                                  [fee_in |-> open[Sym].fee_in,
                                   fee_out |-> fee_out])
                      ELSE UNCHANGED <<rows, open, ledger>>
                   /\ UNCHANGED total_fee_in
    /\ UNCHANGED <<cvars, svars, fvars, rvars, bvars, feed, cfgs, cash, pos, pending, nOrders, leg,
                   intent>>

-----------------------------------------------------------------------------
(* ensure_exchange_rules: the on-disk cache of exchangeInfo, the fetch from *)
(* the Binance endpoints, and the runner's batch over the symbols           *)

NBases       == 7
MaxRuleCalls == 2

EXTERNAL_SYMBOLS == {"XAUUSD", "XAGUSD", "GOLD", "OIL", "SP500"}

\* the symbols a batch may name: two of the exchange, two external ones
RuleSymbols == {"BTCUSDT", "ETHUSDT", "XAUUSD", "GOLD"}

\* need computed without leaving out the cached symbols
Need_WithCached(symbols, c) == {s \in symbols : s \notin EXTERNAL_SYMBOLS}

\* need = [s for s in symbols if s not in cache and s not in EXTERNAL_SYMBOLS]
Need(symbols, c) ==
    {s \in symbols : s \notin c /\ s \notin EXTERNAL_SYMBOLS}

\* What the network does with the one request for the symbols asked: every
\* endpoint fails (exception or empty list), or the tried-th endpoint is the
\* first to answer, with entries for some of the symbols asked.
NetOutcomes(asked) ==
    {[ok |-> FALSE, tried |-> NBases, out |-> {}]}
      \cup {[ok |-> TRUE, tried |-> k, out |-> S] :
                k \in 1..NBases, S \in (SUBSET asked) \ {{}}}

\* _fetch_exchange_info: the entries of the first endpoint that answers, or
\* RuntimeError after the last one
_fetch_exchange_info(symbols, net) ==
    [raised |-> ~net.ok, out |-> net.out, requests |-> net.tried]

\* _parse_symbol_filters(cache[s]) / the generic rules of lines 76-91
Parsed(s)    == [symbol |-> s, kind |-> "parsed"]
Synthetic(s) == [symbol |-> s, kind |-> "synthetic", base |-> s,
                 quote |-> "USD", filters |-> DefaultRules]

\* cache.update(fetched)
Updated(c, fetched) == c \cup fetched

\* ensure_exchange_rules(symbols) on cache c: the call's record, with the
\* cache it leaves on disk and the rules it returns
ensure_exchange_rules(symbols, c, net) ==
    LET need    == Need(symbols, c)
        f       == _fetch_exchange_info(need, net)
        fetch   == need # {}
        raised  == fetch /\ f.raised
        cache2  == IF fetch /\ ~raised THEN Updated(c, f.out) ELSE c
    IN  [symbols |-> symbols, before |-> c, need |-> need,
         requested |-> IF fetch THEN need ELSE {},
         requests |-> IF fetch THEN f.requests ELSE 0,
         raised |-> raised,
         wrote |-> fetch /\ ~raised,
         cache |-> cache2,
         rules |-> IF raised THEN <<>>
                   ELSE [s \in symbols |-> IF s \in cache2 THEN Parsed(s)
                                                           ELSE Synthetic(s)]]

NoRulesCall ==
    [symbols |-> {}, before |-> {}, need |-> {}, requested |-> {},
     requests |-> 0, raised |-> FALSE, wrote |-> FALSE, cache |-> {},
     rules |-> <<>>]

\* main() of the runner for one batch: ensure_exchange_rules(symbols), then
\* one backtest per symbol; an exception out of the first ends main()
Main(symbols) ==
    /\ nCalls < MaxRuleCalls
    /\ \E net \in NetOutcomes(Need(symbols, cache)) :
       \E r \in {ensure_exchange_rules(symbols, cache, net)} :
          /\ rcall' = r
          /\ cache' = r.cache
          /\ ran' = IF r.raised THEN {} ELSE symbols
    /\ nCalls' = nCalls + 1
    /\ UNCHANGED <<cvars, svars, fvars, mvars, bvars>>

IdleRules == cache = {} /\ rcall = NoRulesCall /\ ran = {} /\ nCalls = 0

-----------------------------------------------------------------------------
(* The two live signal bots: boll_breakout_signal_bot.py ("boll") and       *)
(* boll_breakout_signal_bot_dca.py ("dca").  A klines answer is reduced to  *)
(* the open time of its reference candle and to what the signal conditions  *)
(* evaluate to on it.                                                       *)

MaxCycles == 2

BotKinds   == {"boll", "dca"}
BotSymbols == <<"BTCUSDT", "ADAUSDT">>
BotCandles == {1, 2}

\* requests.get(...) + raise_for_status(): an exception, or the candles
KlinesOutcomes ==
    {[ok |-> FALSE, ts |-> 0, sig |-> "none"]}
      \cup {[ok |-> TRUE, ts |-> c, sig |-> g] :
                c \in BotCandles, g \in {"entry", "exit", "none"}}

NoIO == [klines |-> "none", posts |-> <<>>, caught |-> 0]

\* what one pass of the for body did: state of the symbol, state file, the
\* posts attempted with their outcome, exceptions caught, and whether an
\* exception left the loop
Pass(st, file, kl, posts, caught, escaped) ==
    [st |-> st, file |-> file,
     io |-> [klines |-> IF kl.ok THEN "ok" ELSE "fail", posts |-> posts,
             caught |-> caught],
     escaped |-> escaped]

Outcome_(ok) == IF ok THEN "sent" ELSE "failed"

\* evaluate_boll_breakout with the entry test made in every position
evaluate_boll_breakout_AnyPosition(state, kl) ==
    LET seen == [state EXCEPT !.last_ts = kl.ts]
    IN  IF kl.ts = state.last_ts THEN [state |-> state, msg |-> "none"]
        ELSE IF kl.sig = "entry"
        THEN [state |-> [seen EXCEPT !.position = "LONG"],
              msg |-> "ENTRADA LONG"]
        ELSE IF state.position = "LONG" /\ kl.sig = "exit"
        THEN [state |-> [seen EXCEPT !.position = "FLAT"],
              msg |-> "SALIDA (WEAK EXIT)"]
        ELSE [state |-> seen, msg |-> "none"]

\* evaluate_boll_breakout(df, state): the new state of the symbol and the
\* message, if any
evaluate_boll_breakout(state, kl) ==
    LET seen == [state EXCEPT !.last_ts = kl.ts]
    IN  IF kl.ts = state.last_ts THEN [state |-> state, msg |-> "none"]
        ELSE IF state.position = "FLAT" /\ kl.sig = "entry"
        THEN [state |-> [seen EXCEPT !.position = "LONG"],
              msg |-> "ENTRADA LONG"]
        ELSE IF state.position # "FLAT" /\ kl.sig = "exit"
        THEN [state |-> [seen EXCEPT !.position = "FLAT"],
              msg |-> "SALIDA (WEAK EXIT)"]
        ELSE [state |-> seen, msg |-> "none"]

\* boll bot, lines 221-242: fetch_klines, evaluate_boll_breakout, send_discord
\* (which catches the exception of its own post)
BollPass(sym, st, file, kl, p1) ==
    IF ~kl.ok THEN Pass(st, file, kl, <<>>, 1, FALSE)
    ELSE LET e == evaluate_boll_breakout(st[sym], kl)
         IN  IF e.msg = "none"
             THEN Pass([st EXCEPT ![sym] = e.state], file, kl, <<>>, 0, FALSE)
             ELSE Pass([st EXCEPT ![sym] = e.state], file, kl,
                       <<Outcome_(p1)>>, IF p1 THEN 0 ELSE 1, FALSE)

\* the messages evaluate_boll_breakout has returned for each symbol, and its
\* last call
NoEval == [sym |-> "", ts |-> 0, msg |-> "none", before |-> <<>>,
           after |-> <<>>]

Logged(log, sym, st, kl) ==
    LET e == evaluate_boll_breakout(st[sym], kl)
    IN  [msgs |-> IF e.msg = "none" THEN log.msgs
                  ELSE [log.msgs EXCEPT ![sym] = Append(@, e.msg)],
         last |-> [sym |-> sym, ts |-> kl.ts, msg |-> e.msg,
                   before |-> st[sym], after |-> e.state]]

\* dca bot, lines 129-153: get_klines, detect_signal, send_discord_signal,
\* save_state; the except branch posts the error with send_discord_raw,
\* whose exception nothing catches
DcaPass(sym, st, file, kl, p1, p2) ==
    LET cur == st[sym]
        new == [st EXCEPT ![sym] = [cur EXCEPT !.last_ts = kl.ts]]
    IN  IF ~kl.ok THEN Pass(st, file, kl, <<Outcome_(p2)>>, 1, ~p2)
        ELSE IF kl.ts = cur.last_ts THEN Pass(st, file, kl, <<>>, 0, FALSE)
        ELSE IF kl.sig # "entry" THEN Pass(st, file, kl, <<>>, 0, FALSE)
        ELSE IF p1 THEN Pass(new, new, kl, <<"sent">>, 0, FALSE)
        ELSE Pass(st, file, kl, <<"failed", Outcome_(p2)>>, 1, ~p2)

\* the body of "for sym in symbols" for the next symbol of the cycle
BotSymbol(kl, p1, p2) ==
    /\ bpc = "loop"
    /\ bidx <= Len(BotSymbols)
    /\ \E r \in {IF bkind = "boll"
                  THEN BollPass(BotSymbols[bidx], bstate, bsaved, kl, p1)
                  ELSE DcaPass(BotSymbols[bidx], bstate, bsaved, kl, p1, p2)} :
          /\ bstate' = r.st
          /\ bsaved' = r.file
          /\ bio' = r.io
          /\ blog' = IF bkind = "boll" /\ kl.ok
                     THEN Logged(blog, BotSymbols[bidx], bstate, kl)
                     ELSE blog
          /\ bpc' = IF r.escaped THEN "ended" ELSE "loop"
    /\ bidx' = bidx + 1
    /\ UNCHANGED <<cvars, svars, fvars, mvars, rvars, bkind, bcycles>>

\* the end of a cycle: the boll bot saves the state; both sleep and start
\* the next cycle
BotSleep ==
    /\ bpc = "loop"
    /\ bidx > Len(BotSymbols)
    /\ bcycles < MaxCycles
    /\ bsaved' = IF bkind = "boll" THEN bstate ELSE bsaved
    /\ bidx' = 1
    /\ bcycles' = bcycles + 1
    /\ bio' = NoIO
    /\ UNCHANGED <<cvars, svars, fvars, mvars, rvars, bkind, bpc, bstate, blog>>

IdleBot ==
    /\ bkind = "none" /\ bpc = "off" /\ bidx = 0 /\ bcycles = 0
    /\ bstate = <<>> /\ bsaved = <<>> /\ bio = NoIO
    /\ blog = [msgs |-> <<>>, last |-> NoEval]

-----------------------------------------------------------------------------

IdleRun ==
    /\ tape = <<>> /\ t = 0 /\ ex_rules = <<>> /\ fees_cfg = <<>>
    /\ max_alloc_pct = 0 /\ intent = NoIntent /\ ledger = <<>>
    /\ cash = 0 /\ pos = 0 /\ pending = <<>> /\ notifs = <<>>
    /\ rows = <<>> /\ open = NoOpen /\ total_fee_in = 0 /\ total_fee_out = 0
    /\ nOrders = 0 /\ leg = EmptyLeg /\ last = NoCall

InitConform ==
    /\ IdleFees
    /\ creq \in ConformRequests /\ cres = <<>> /\ IdleSlip /\ IdleRun
    /\ IdleRules /\ IdleBot
SpecConform == InitConform /\ [][ConformCall]_vars

InitCap ==
    /\ creq \in CapRequests /\ cres = <<>>
    /\ IdleSlip /\ IdleFees /\ IdleRun /\ IdleRules /\ IdleBot
SpecCap == InitCap /\ [][CapCall]_vars

\* Strategy.buy after n calls of enable_exec_middleware (run_backtest is
\* called once per symbol of the batch and enables the middleware each time,
\* with the same rules and fees).  Each call captures the method installed at
\* the time as orig_buy (lines 45-47) and installs its own buy_wrapper (lines
\* 219-221): the wrapper of the last call runs first and hands its adjusted
\* size to the wrapper below it (lines 137-138).  cres holds the decisions of
\* the wrappers entered so far, outermost first.
MaxStack == 3

StackCash == {0, 12 * MoneyPerCurrency, 30 * MoneyPerCurrency,
              60 * MoneyPerCurrency}

StackRequests ==
    [ n : 1..MaxStack, size : 0..MaxBuySize, rules : RuleMaps,
      bar : BarKinds, cash : StackCash ]

StackData(r) == [tape |-> <<r.bar>>, t |-> 1]

\* the size the next wrapper is called with
StackSize == IF cres = <<>> THEN creq.size ELSE cres[Len(cres)].qty

\* one more buy_wrapper is entered: by the strategy's call, or by the
\* orig_buy(...) of the wrapper above it
StackCall ==
    /\ Len(cres) < creq.n
    /\ cres # <<>> => cres[Len(cres)].submit
    /\ \E d \in {BuyDecision(StackSize, StackData(creq), creq.rules,
                             default_fees_cfg(1), creq.cash)} :
          cres' = Append(cres, d)
    /\ UNCHANGED <<creq, svars, fvars, mvars, rvars, bvars>>

\* the call of the strategy has returned: a wrapper returned None or raised,
\* or the innermost one called backtrader's own buy
StackDone ==
    cres # <<>> /\ (Len(cres) = creq.n \/ ~cres[Len(cres)].submit)

\* what the strategy's call returns: the order backtrader's buy made of the
\* size the innermost wrapper handed it, with the figures of the outermost
\* wrapper (on the way back every wrapper overwrites the info of the one
\* below it, lines 141-151), or no order
StackOrder ==
    IF StackDone /\ cres[Len(cres)].submit
    THEN [order |-> TRUE, size |-> cres[Len(cres)].qty,
          px_eff_in |-> cres[1].px_eff, entry_notional |-> cres[1].notional,
          fee_in |-> cres[1].fee]
    ELSE [order |-> FALSE, size |-> 0, px_eff_in |-> 0, entry_notional |-> 0,
          fee_in |-> 0]

\* what it returns with a single wrapper
SingleOrder ==
    IF cres[1].submit
    THEN [order |-> TRUE, size |-> cres[1].qty,
          px_eff_in |-> cres[1].px_eff, entry_notional |-> cres[1].notional,
          fee_in |-> cres[1].fee]
    ELSE [order |-> FALSE, size |-> 0, px_eff_in |-> 0, entry_notional |-> 0,
          fee_in |-> 0]

InitStack ==
    /\ creq \in StackRequests /\ cres = <<>>
    /\ IdleSlip /\ IdleFees /\ IdleRun /\ IdleRules /\ IdleBot
SpecStack == InitStack /\ [][StackCall]_vars

InitSlip ==
    /\ IdleFees
    /\ sreq \in SlipRequests /\ sres = <<>> /\ IdleConform /\ IdleRun
    /\ IdleRules /\ IdleBot
SpecSlip == InitSlip /\ [][SlipCall]_vars

InitFees ==
    /\ freq \in FeeRequests /\ fres = <<>>
    /\ IdleConform /\ IdleSlip /\ IdleRun /\ IdleRules /\ IdleBot
NextFees == FeeAmountCall \/ BuyholdCall
SpecFees == InitFees /\ [][NextFees]_vars

\* a run as run_backtest_for_symbol sets it up: one feed named after the
\* symbol, the rules of that symbol, default fees, the first bar delivered
Init ==
    /\ IdleFees
    /\ IdleConform /\ IdleSlip /\ IdleRules /\ IdleBot
    /\ tape \in [1..MaxBars -> RunBars]
    /\ t = 1
    /\ ex_rules \in RuleMaps
    /\ fees_cfg = default_fees_cfg(1)
    /\ max_alloc_pct \in MaxAllocPcts
    /\ intent = NoIntent /\ ledger = <<>>
    /\ cash \in InitCash
    /\ pos = 0 /\ pending = <<>> /\ notifs = <<>>
    /\ rows = <<>> /\ open = NoOpen /\ total_fee_in = 0 /\ total_fee_out = 0
    /\ nOrders = 0 /\ leg = EmptyLeg /\ last = NoCall

Next ==
    \/ \E size \in BuySizes : Buy(size)
    \/ \E size \in SellSizes : Sell(size)
    \/ Close
    \/ NextBar
    \/ Notify

Spec == Init /\ [][Next]_vars

\* batches of a runner on a cache file that earlier batches have written
InitRules ==
    /\ IdleFees
    /\ IdleConform /\ IdleSlip /\ IdleRun /\ IdleBot
    /\ cache \in SUBSET (RuleSymbols \ EXTERNAL_SYMBOLS)
    /\ rcall = NoRulesCall /\ ran = {} /\ nCalls = 0

NextRules == \E symbols \in (SUBSET RuleSymbols) \ {{}} : Main(symbols)

SpecRules == InitRules /\ [][NextRules]_vars

\* run_bot at the entry of "while True": no state file, every symbol
\* initialised
InitBot ==
    /\ IdleFees
    /\ IdleConform /\ IdleSlip /\ IdleRun /\ IdleRules
    /\ bkind \in BotKinds
    /\ bpc = "loop" /\ bidx = 1 /\ bcycles = 0
    /\ bstate = [sym \in {BotSymbols[i] : i \in 1..Len(BotSymbols)} |->
                    [position |-> "FLAT", last_ts |-> 0]]
    /\ bsaved = <<>>
    /\ bio = NoIO
    /\ blog = [msgs |-> [sym \in {BotSymbols[i] : i \in 1..Len(BotSymbols)} |->
                            <<>>],
                last |-> NoEval]

NextBot ==
    \/ \E kl \in KlinesOutcomes, p1, p2 \in BOOLEAN : BotSymbol(kl, p1, p2)
    \/ BotSleep

SpecBot == InitBot /\ [][NextBot]_vars

-----------------------------------------------------------------------------
(* Properties of the buy wrapper *)

\* C1: every buy order the buy wrapper forwards to the broker has
\* effective notional + taker fee <= the broker cash read while handling the
\* intent (tolerance 1e-6), the effective notional being the slippage-adjusted
\* price times the submitted quantity, on the direct path and on the
\* scale-down path alike.
C1_ForwardedBuyFitsCash ==
    \A i \in 1..Len(pending) :
        LET o == pending[i]
            n == apply_slippage("buy", Line(Data, "close", 0), o.size, Data,
                                default_latency_cfg, default_slippage_cfg)
                 * o.size
        IN  o.side = "buy" =>
              /\ o.path \in {"direct", "scaled"}
              /\ o.entry_notional = n
              /\ n * MoneyPerNotional
                   + fee_amount(n * MoneyPerNotional, "taker", fees_cfg)
                 <= o.cashSeen + Eps

\* a buy forwarded on the scale-down path, for less than the requested size,
\* next to one forwarded on the direct path
C1_Witness ==
    /\ \E i \in 1..Len(pending) :
          pending[i].path = "scaled" /\ pending[i].size < MaxBuySize
    /\ \E i \in 1..Len(pending) : pending[i].path = "direct"

\* the order the last wrapper call handed to the broker
Submitted == intent.outcome = "Submitted"
LastOrder == pending[Len(pending)]

\* broker.getvalue() as the wrapper call found it: cash plus the position
\* at the close of the bar
PortfolioValue ==
    intent.before.cash
      + intent.before.pos * Line(Data, "close", 0) * MoneyPerCurrency

\* C11: every buy the middleware forwards has been conformed under the cap
\* portfolio value x max_alloc_pct (the value given to
\* enable_exec_middleware): the notional at the reference price of a
\* forwarded buy does not exceed that cap, a buy above it being rejected.
C11_BuyWithinAllocationCap ==
    (intent.call = "buy" /\ Submitted) =>
        WideLeq(WideMul(Line(Data, "close", 0) * LastOrder.size * 100,
                        MoneyPerCurrency),
                WideMul(max_alloc_pct, PortfolioValue))

\* C12: every buy intent ends in exactly one of two ways.  Submitted: the
\* original buy has been called exactly once, after the rules check, the
\* slippage computation and the cash validation passed in that order, and its
\* order is the one added at the broker.  Rejected: no order is returned, the
\* original buy has not been called, and broker cash, position, orders and
\* the analyzer state are as the intent found them.
C12_BuyEndsSubmittedOrRejected ==
    intent.call = "buy" =>
        \/ /\ Submitted
           /\ intent.orig = 1
           /\ Len(intent.stages) >= 3
           /\ SubSeq(intent.stages, Len(intent.stages) - 2, Len(intent.stages))
                = <<"rules", "slippage", "cash">>
           /\ pending = Append(intent.before.pending, LastOrder)
           /\ LastOrder.side = "buy"
           /\ [Snapshot EXCEPT !.pending = intent.before.pending]
                = intent.before
        \/ /\ intent.outcome = "Rejected"
           /\ intent.orig = 0
           /\ Snapshot = intent.before

\* C13: conformance never leaves a wrapper call as an exception: whatever
\* rules mapping the middleware was given (one without an entry for the symbol
\* included), price and quantity, a buy intent gets a conformance result and
\* is submitted or skipped.
C13_ConformanceNeverRaises ==
    intent.call = "buy" => intent.outcome \in {"Submitted", "Rejected"}

\* C14: every buy intent that is not submitted has printed exactly one log
\* line, naming the symbol, the timestamp of the bar and a reason.
C14_OneLogLinePerUnsubmittedBuy ==
    (intent.call = "buy" /\ ~Submitted) =>
        /\ Len(intent.lines) = 1
        /\ intent.lines[1].sym = Sym
        /\ intent.lines[1].dt = t
        /\ intent.lines[1].motivo # ""

C20_OrderInfoComplete ==
    \A i \in 1..Len(pending) :
        LET o == pending[i]
        IN  /\ {"_px_eff_in", "_px_eff_out"} \cap o.info # {}
            /\ {"_fee_in", "_fee_out"} \cap o.info # {}
            /\ {"_entry_notional", "_exit_notional"} \cap o.info # {}
            /\ "_symbol" \in o.info

-----------------------------------------------------------------------------
(* Properties of FeesNetAnalyzer *)

CompletedSell == last.side = "sell" /\ last.status = "Completed" /\ last.size > 0

Appended == Len(rows) = Len(last.rows) + 1 /\ SubSeq(rows, 1, Len(last.rows)) = last.rows

RECURSIVE SumOf(_, _)
SumOf(fills, f) ==
    IF fills = <<>> THEN 0 ELSE Head(fills)[f] + SumOf(Tail(fills), f)

\* C6: in every row the analyzer has emitted, the stored net PnL equals the
\* stored gross PnL minus the stored entry fee minus the stored exit fee.
C6_NetIsGrossMinusFees ==
    \A i \in 1..Len(rows) :
        rows[i].pnl_neto = rows[i].pnl_bruto - rows[i].fee_in - rows[i].fee_out

\* C7: when a sell fill zeroes a position built from flat by buy fills only
\* and the position is flat at the notification, the row emitted has
\* quantity = the sum of the fills' quantities, entry price = their VWAP,
\* entry fee = the sum of their fees and gross PnL = (exit price - VWAP) *
\* quantity.
C7_RowAggregatesTheBuyFills ==
    (CompletedSell /\ last.zeroed /\ last.pos = 0
       /\ last.leg.pure /\ last.leg.buys # <<>>)
    => /\ Appended
       /\ LET r  == rows[Len(rows)]
              q  == SumOf(last.leg.buys, "q")
              n  == SumOf(last.leg.buys, "n")
              f  == SumOf(last.leg.buys, "f")
          IN  /\ r.qty = q
              /\ r.px_in = Round8(n, q)
              /\ r.fee_in = Round2(f)
              /\ r.pnl_bruto = Round2(((r.px_out \div 100) * q - n) * MoneyPerNotional)

\* C8: a buy from flat, fully filled with the conformed quantity, followed by
\* a sell of the whole position yields exactly one row, whose quantity is
\* the quantity of the buy.
C8_RoundTripQuantity ==
    (CompletedSell /\ last.zeroed /\ last.pos = 0
       /\ last.leg.pure /\ Len(last.leg.buys) = 1
       /\ last.size = last.leg.buys[1].q)
    => /\ Appended
       /\ rows[Len(rows)].qty = last.leg.buys[1].q

\* C9: a completed sell fill makes the analyzer append a row if and only if
\* the position is exactly zero at the notification and the symbol has an
\* accumulator; then exactly one row is appended and the accumulator is
\* removed, otherwise no row is appended and the accumulator stays as it was.
C9_EmitsIffFlatWithAccumulator ==
    CompletedSell
    => IF last.pos = 0 /\ HasOpen(last.open, Sym)
       THEN Appended /\ ~HasOpen(open, Sym)
       ELSE rows = last.rows /\ open = last.open

\* a sell that left the position flat closed the trade of the accumulator
C9_Witness ==
    /\ CompletedSell /\ last.pos = 0 /\ HasOpen(last.open, Sym)
    /\ Len(rows) = Len(last.rows) + 1
    /\ rows[Len(rows)].qty = last.open[Sym].qty
    /\ open = NoOpen

\* C10: after a completed sell fill that leaves a long position open, the
\* quantity of the accumulator, which was the position before the fill, is
\* the remaining position.
C10_PartialExitReducesAccumulator ==
    (CompletedSell /\ last.pos > 0 /\ HasOpen(last.open, Sym)
       /\ last.open[Sym].qty = last.pos + last.size)
    => HasOpen(open, Sym) /\ open[Sym].qty = last.pos

-----------------------------------------------------------------------------
(* Properties of conform_order *)

StepOf(r, order_type) == IF order_type = "LIMIT" THEN r.stepSize ELSE r.stepSizeMkt
MinQtyOf(r, order_type) == IF order_type = "LIMIT" THEN r.minQty ELSE r.minQtyMkt
MaxQtyOf(r, order_type) == IF order_type = "LIMIT" THEN r.maxQty ELSE r.maxQtyMkt

ValidRules(r) ==
    /\ r.tickSize > 0 /\ r.stepSize > 0 /\ r.stepSizeMkt > 0
    /\ 0 < r.minQty /\ r.minQty <= r.maxQty
    /\ 0 < r.minQtyMkt /\ r.minQtyMkt <= r.maxQtyMkt
    /\ r.minNotional >= 0

\* C2: whenever conform_order returns ok for a valid rule set and a
\* non-negative quantity, the returned quantity is an exact multiple of the
\* applicable step size and lies within [minQty, maxQty] of the order type,
\* the synthetic default rules included.
C2_QtyOnStepAndInRange ==
    (cres # <<>> /\ cres[1].ok /\ ValidRules(creq.rules) /\ creq.qty >= 0)
    => /\ cres[1].qty % StepOf(creq.rules, creq.order_type) = 0
       /\ cres[1].qty >= MinQtyOf(creq.rules, creq.order_type)
       /\ cres[1].qty <= MaxQtyOf(creq.rules, creq.order_type)

\* C3: a buy-side call with minNotional > 0 either returns ok with
\* price * quantity >= minNotional or returns not-ok with reason
\* minNotional_unreachable.
C3_BuyNotionalAtLeastMin ==
    (cres # <<>> /\ creq.side = "buy" /\ creq.rules.minNotional > 0)
    => \/ cres[1].ok /\ cres[1].price * cres[1].qty >= creq.rules.minNotional
       \/ ~cres[1].ok /\ cres[1].reason = "minNotional_unreachable"

-----------------------------------------------------------------------------
(* Properties of slip_bps / apply_slippage *)

\* C4: for a positive reference price and 0 <= min_bps <= max_bps the
\* effective price is >= the reference price for a buy and <= the reference
\* price for a sell.
C4_SlippageCostsTrader ==
    (sres # <<>> /\ sreq.price > 0
       /\ 0 <= sreq.cfg.min_bps /\ sreq.cfg.min_bps <= sreq.cfg.max_bps)
    => /\ sreq.side = "buy"  => sres[1].px >= sreq.price * 10000
       /\ sreq.side = "sell" => sres[1].px <= sreq.price * 10000

\* a sell whose effective price is strictly below the reference price, and
\* the buy counterpart above it
C4_Witness ==
    /\ sres # <<>> /\ sreq.side = "sell" /\ sreq.price > 0
    /\ sres[1].px < sreq.price * 10000
    /\ sres[1].bps > sreq.cfg.min_bps

\* C5: slip_bps returns a value within [min_bps, max_bps], whatever the
\* spread, volatility, size and latency terms are.
C5_BpsWithinBounds ==
    (sres # <<>> /\ sreq.cfg.min_bps <= sreq.cfg.max_bps)
    => /\ sres[1].bps >= sreq.cfg.min_bps
       /\ sres[1].bps <= sreq.cfg.max_bps

\* the unclamped sum is far above max_bps (the order is the whole bar volume
\* and the ATR is at its cap) and the result is max_bps
C5_Witness ==
    /\ sres # <<>>
    /\ SlipRaw(sreq.side, sreq.price, sreq.qty, SlipData(sreq),
               sreq.lat_cfg, sreq.cfg) > 100 * sreq.cfg.max_bps + 100000
    /\ sreq.cfg.max_bps > sreq.cfg.min_bps
    /\ sres[1].bps = sreq.cfg.max_bps

-----------------------------------------------------------------------------
(* Properties of ensure_exchange_rules and the batch *)

Called == rcall.symbols # {}

\* C15: when the rules of a symbol of a batch cannot be obtained (every
\* endpoint fails for the symbols that need a fetch), only the runs of those
\* symbols are lost: every symbol of the batch that is cached or external
\* still has its backtest run.
C15_OtherSymbolsStillRun ==
    (Called /\ rcall.raised) => (rcall.symbols \ rcall.need) \subseteq ran

\* C17: an external symbol of a call gets the synthetic permissive rules,
\* is in no network request and is not written to the cache, whatever the
\* cache holds and whatever other symbols the call names.
C17_ExternalGetsSyntheticRules ==
    \A s \in rcall.symbols \cap EXTERNAL_SYMBOLS :
        /\ s \in DOMAIN rcall.rules
        /\ rcall.rules[s] = Synthetic(s)
        /\ s \notin rcall.requested
        /\ s \notin cache

\* C18: the cache is never invalidated: a call leaves every cached symbol in
\* the cache, requests no symbol that was cached, and when all its symbols
\* are cached or external it makes no request and does not write the cache.
C18_CacheOnlyGrows ==
    Called =>
        /\ cache = rcall.cache
        /\ rcall.before \subseteq cache
        /\ rcall.requested \cap rcall.before = {}
        /\ (rcall.symbols \subseteq rcall.before \cup EXTERNAL_SYMBOLS) =>
              /\ rcall.requests = 0
              /\ ~rcall.wrote
              /\ cache = rcall.before

\* a second batch on a cache the first one has filled: one of its symbols
\* is cached, another one is fetched and added
C18_Witness ==
    /\ nCalls = 2
    /\ rcall.symbols \cap rcall.before # {}
    /\ rcall.wrote
    /\ cache # rcall.before

-----------------------------------------------------------------------------
(* Properties of the signal bots *)

\* C16: in both bots a failure of the klines fetch or of a webhook post
\* inside the polling loop never ends the loop.
C16_LoopSurvivesIOFailure == bpc # "ended"

-----------------------------------------------------------------------------
(* Properties of the fee functions *)

\* C21: the fee functions never raise and never return a negative fee; on a
\* negative notional (fee_amount) or a negative capital or price
\* (buyhold_fees) the fees returned are 0.
C21_FeesNeverNegativeNorRaise ==
    fres # <<>> =>
        /\ ~fres.raised
        /\ \A i \in 1..Len(fres.fees) : fres.fees[i] >= 0
        /\ (freq.notional < 0 \/ freq.capital < 0 \/ freq.px_in < 0
              \/ freq.px_out < 0)
             => \A i \in 1..Len(fres.fees) : fres.fees[i] = 0


-----------------------------------------------------------------------------
(* Properties of the orders the wrappers submit *)

\* C22: every order the middleware has submitted, buys, sells and closes
\* alike, has a quantity that is a multiple of the market step size of the
\* symbol and lies within its market minimum and maximum quantity.
C22_SubmittedQtyMeetsConstraints ==
    Sym \in DOMAIN ex_rules =>
        \A i \in 1..Len(pending) :
            /\ pending[i].size % ex_rules[Sym].stepSizeMkt = 0
            /\ pending[i].size >= ex_rules[Sym].minQtyMkt
            /\ pending[i].size <= ex_rules[Sym].maxQtyMkt


\* the first conformance and cost estimate of the buy intent, and what the
\* scale-down by cash / total_cost gives after one more conformance
FirstTry ==
    LET px == Line(Data, "close", 0)
        c1 == bt_conform_market_order(RulesOf(ex_rules, Sym), "buy", px,
                                      intent.size, 0)
    IN  [c |-> c1, k |-> BuyCost(px, c1.qty, Data, fees_cfg)]

SecondTry ==
    LET px == Line(Data, "close", 0)
        qs == ScaleQty(FirstTry.c.qty, intent.before.cash, FirstTry.k.total)
        c2 == bt_conform_market_order(RulesOf(ex_rules, Sym), "buy", px, qs, 0)
    IN  [c |-> c2, k |-> BuyCost(px, c2.qty, Data, fees_cfg)]

\* a buy intent whose first cost estimate exceeds the cash
FirstCostOverCash ==
    /\ intent.call = "buy" /\ intent.size > 0
    /\ Sym \in DOMAIN ex_rules
    /\ FirstTry.c.ok /\ FirstTry.c.qty > 0
    /\ FirstTry.k.total > intent.before.cash + Eps

\* submitted with the re-conformed quantity iff that quantity passes
\* conformance and its recomputed cost fits the cash, rejected otherwise
ScaledOnceOutcome ==
    /\ intent.reconf = 1
    /\ Submitted <=> /\ SecondTry.c.ok /\ SecondTry.c.qty > 0
                     /\ SecondTry.k.total <= intent.before.cash + Eps
    /\ Submitted => /\ LastOrder.size = SecondTry.c.qty
                    /\ LastOrder.size # FirstTry.c.qty
                    /\ LastOrder.entry_notional = SecondTry.k.notional
                    /\ LastOrder.fee_in = SecondTry.k.fee
    /\ ~Submitted => intent.outcome = "Rejected" /\ intent.orig = 0

\* C23 as stated: whenever the first cost estimate of a buy exceeds the cash,
\* the quantity is scaled by cash / total_cost and conformance is re-run
\* exactly once on it; the buy is submitted only with the re-conformed quantity
\* and only if its recomputed cost fits the cash, and rejected otherwise.
C23_AlwaysRescaledOnce ==
    FirstCostOverCash => intent.over /\ ScaledOnceOutcome

\* C23, amended: as stated whenever the cash is positive; with no cash left
\* (cash <= 0) the buy is rejected at once, with no scaling and no further
\* conformance run.
C23_RescaledOnceIfCash ==
    FirstCostOverCash =>
        /\ intent.over
        /\ IF intent.before.cash > 0 THEN ScaledOnceOutcome
           ELSE /\ intent.outcome = "Rejected" /\ intent.orig = 0
                /\ intent.reconf = 0

\* a buy scaled down and submitted for less than first conformed
C23_Witness ==
    /\ FirstCostOverCash /\ Submitted /\ intent.reconf = 1
    /\ LastOrder.size < FirstTry.c.qty


-----------------------------------------------------------------------------
(* Properties of bt_conform_market_order *)

CapResult == "cap" \in DOMAIN creq /\ cres # <<>>

\* what conform_order gives for the request
Conformed ==
    conform_order(creq.rules, creq.side, "MARKET", creq.ref_price, creq.qty)

\* C24: with a positive cap_notional, bt_conform_market_order returns ok only
\* when the conformed notional is <= the cap, and then with exactly the
\* quantity conform_order produced; when the conformed notional exceeds the
\* cap it returns not-ok with quantity 0, notional 0 and reason
\* excede_cap_nueva_orden.
C24_CapRejectsNeverReduces ==
    (CapResult /\ creq.cap > 0) =>
        /\ cres[1].ok =>
              /\ Conformed.ok
              /\ cres[1].notional <= creq.cap
              /\ cres[1].qty = Conformed.qty
              /\ cres[1].notional = Conformed.notional
        /\ (Conformed.ok /\ Conformed.notional > creq.cap) =>
              /\ ~cres[1].ok
              /\ cres[1].qty = 0 /\ cres[1].notional = 0
              /\ cres[1].reason = "excede_cap_nueva_orden"

\* a request that conforms to a notional above its cap, rejected for the cap
C24_Witness ==
    /\ CapResult /\ creq.cap > 0
    /\ Conformed.ok /\ Conformed.notional > creq.cap
    /\ cres[1].reason = "excede_cap_nueva_orden"


-----------------------------------------------------------------------------
(* Further properties of FeesNetAnalyzer *)

\* C25: once the analyzer has processed the fills delivered so far, the
\* symbol has an accumulator in _open if and only if the broker position of
\* the symbol is non-zero.
C25_AccumulatorIffPosition ==
    notifs = <<>> => (HasOpen(open, Sym) <=> pos # 0)


\* C29: whenever the position is flat and every fill has been notified, the
\* running totals equal the fees of the emitted rows before rounding:
\* total_fee_in the sum of their entry fees, total_fee_out the sum of their
\* exit fees.
C29_TotalsMatchLedger ==
    (pos = 0 /\ notifs = <<>>) =>
        /\ Len(ledger) = Len(rows)
        /\ total_fee_in = SumOf(ledger, "fee_in")
        /\ total_fee_out = SumOf(ledger, "fee_out")


-----------------------------------------------------------------------------
(* Properties of several intents in one bar *)

\* effective notional + fee of the buy orders among the given orders
RECURSIVE BuyCostSum(_)
BuyCostSum(orders) ==
    IF orders = <<>> THEN 0
    ELSE (IF Head(orders).side = "buy"
          THEN Head(orders).entry_notional * MoneyPerNotional
                 + Head(orders).fee_in
          ELSE 0) + BuyCostSum(Tail(orders))

\* C26: the buy orders submitted within one bar, before any of them is
\* filled, together cost (effective notional + fee) no more than the cash
\* available at the start of the bar.
C26_BuysOfABarFitCash ==
    notifs = <<>> => BuyCostSum(pending) <= cash + Eps


\* the position once the given order is filled
PosAfterFill(p, o) == IF o.side = "buy" THEN p + o.size ELSE p - o.size

\* C27: the order that close() submits brings the position it found, long or
\* short, to exactly zero once filled.
C27_CloseFlattens ==
    (intent.call = "close" /\ Submitted /\ intent.before.pos # 0)
        => PosAfterFill(intent.before.pos, LastOrder) = 0


-----------------------------------------------------------------------------
(* Properties of stacked wrappers *)

\* C28: a buy that passes through n stacked wrappers gives what it gives
\* with one wrapper: an order in the same cases, of the same size and with
\* the same attached figures; every wrapper below the first takes the
\* decision of the first.
C28_StackedWrappersIdempotent ==
    StackDone =>
        /\ StackOrder = SingleOrder
        /\ \A k \in 1..Len(cres) :
              /\ cres[k].submit = cres[1].submit
              /\ cres[k].qty = cres[1].qty
              /\ cres[k].px_eff = cres[1].px_eff
              /\ cres[k].notional = cres[1].notional
              /\ cres[k].fee = cres[1].fee

\* three wrappers, the first of which scaled the size down to the cash, and
\* an order reached the broker
C28_Witness ==
    /\ StackDone /\ Len(cres) >= 3 /\ StackOrder.order
    /\ cres[1].path = "scaled" /\ cres[1].qty < creq.size


-----------------------------------------------------------------------------
(* Properties of the Bollinger breakout bot *)

Alternating(msgs) ==
    \A k \in 1..Len(msgs) :
        msgs[k] = IF k % 2 = 1 THEN "ENTRADA LONG" ELSE "SALIDA (WEAK EXIT)"

\* C30: in the Bollinger breakout bot the messages of each symbol alternate
\* entry, exit, entry, ... from the initial FLAT state; an entry is emitted
\* only in FLAT and moves the symbol to LONG, an exit only in LONG and moves
\* it to FLAT; a candle whose open time is the last one evaluated gives no
\* message and leaves the state as it was.
C30_SignalsAlternate ==
    bkind = "boll" =>
        /\ \A sym \in DOMAIN blog.msgs :
              /\ Alternating(blog.msgs[sym])
              /\ bstate[sym].position =
                    IF Len(blog.msgs[sym]) % 2 = 1 THEN "LONG" ELSE "FLAT"
        /\ blog.last.msg = "ENTRADA LONG" =>
              /\ blog.last.before.position = "FLAT"
              /\ blog.last.after.position = "LONG"
        /\ blog.last.msg = "SALIDA (WEAK EXIT)" =>
              /\ blog.last.before.position = "LONG"
              /\ blog.last.after.position = "FLAT"
        /\ (blog.last.sym # "" /\ blog.last.ts = blog.last.before.last_ts) =>
              /\ blog.last.msg = "none"
              /\ blog.last.after = blog.last.before

\* a symbol has had entry, exit and entry again, and the candle polled last
\* was the one evaluated just before
C30_Witness ==
    /\ bkind = "boll"
    /\ \E sym \in DOMAIN blog.msgs : Len(blog.msgs[sym]) >= 3
    /\ blog.last.sym # "" /\ blog.last.ts = blog.last.before.last_ts

====
